---- MODULE Spec2Model ----
(***************************************************************************)
(* Model of BaseAgent (src/agents/base_agent.py): the bounded              *)
(* conversation history, the long-term memory bank and the overflow-retry  *)
(* protocol of get_response.                                               *)
(*                                                                         *)
(* A message text is abstracted to what the code observes of it: its       *)
(* length in characters (len), whether it contains the memory marker       *)
(* "阶段总结" (mark), where it came from (tag), whether the retry cut it   *)
(* (cut) and, for the text built by inject_memories_to_context, the memory *)
(* entries folded into it (parts).                                         *)
(*                                                                         *)
(* The workflow of AgentCoordinator (src/coordinator.py) is modelled by    *)
(* its position in the five phases and the agent operation it waits for.   *)
(***************************************************************************)
EXTENDS Integers, Sequences, FiniteSets, TLC

VARIABLES
    system_prompt,         \* self.system_prompt (a text; len 0 is the empty string)
    conversation_history,  \* self.conversation_history: sequence of [role, content]
    memory_bank,           \* self.memory_bank: sequence of [phase, content]
    pc,                    \* position of the session: Idle, Sending, Retrying, Failed
    messages_to_send,      \* payload of the remote call in flight: [role, content, src]
    ret,                   \* value returned by the last operation: [form, content]
    calls,                 \* remote invocations made by the current/last operation
    mode,                  \* who called the get_response in progress: [kind, phase]
    raised,                \* str(e) of the errors the remote calls of that operation raised
    lastOp,                \* the last public operation that returned
    coord                  \* AgentCoordinator: its place in the workflow

agentVars == <<system_prompt, conversation_history, memory_bank, pc,
               messages_to_send, ret, calls, mode, raised, lastOp>>

vars == <<system_prompt, conversation_history, memory_bank, pc, messages_to_send,
          ret, calls, mode, raised, lastOp, coord>>

-----------------------------------------------------------------------------
(* Bounds of the model *)

MaxHist == 4      \* no operation is taken that can store more turns than this
MaxMem == 1       \* summarize_phase is taken while Len(memory_bank) < MaxMem
                  \* (SpecMem: while Len(memory_bank) <= MaxMem)
LongTurns == 10   \* SpecLong: non-system turns stored by earlier operations
LongRoom == 4     \* SpecLong: turns that may be stored on top of those
MaxPairs == 5     \* SpecEvict: user/assistant pairs stored at most

(* Program constants *)

SendBudget == 35000          \* get_response: manage_history_length(35000)
DefaultBudget == 40000       \* manage_history_length default max_tokens
RetryBudget == 20000         \* get_response after a successful retry
SummarizeBudget == 30000     \* summarize_phase
HardLimit == 60000           \* get_response: aggressive trim threshold
KeepLast == 10               \* get_response: non-system messages kept by the trim
TruncateAt == 4000           \* get_response: ceiling of the retried user text
TruncMarkerLen == 10         \* len("...(内容已截断)")
MaxMemoryTokens == 10000     \* inject_memories_to_context: max_memory_tokens
CharsPerToken == 2           \* len(content) // 2
FillerALen == 12             \* len("我理解您的问题，请继续。")
FillerULen == 6              \* len("请继续说明。")
ErrPrefixLen == 9            \* len("API调用出错: ")
RetryErrPrefixLen == 11      \* len("API调用重试失败: ")
MemHeaderLen == 23           \* len of the header of the injected memory text
MemPlaceholderLen == 33      \* len of the "memory unavailable" text
MemWrapLen == 16             \* len of "--- {phase} 阶段总结 ---\n{content}\n\n" without phase, content
SummaryPromptLen == 229      \* len of the summarize_phase prompt without phase, context
ContextLabelLen == 6         \* len("上下文信息：")

-----------------------------------------------------------------------------
(* Texts *)

Text(tag, len, mark) ==
    [tag |-> tag, len |-> len, mark |-> mark, cut |-> FALSE, parts |-> <<>>]

EmptyText == Text("empty", 0, FALSE)
FillerAssistant == [role |-> "assistant", content |-> Text("fillerA", FillerALen, FALSE)]
FillerUser == [role |-> "user", content |-> Text("fillerU", FillerULen, FALSE)]

Msg(role, content) == [role |-> role, content |-> content]

PhaseLen(p) ==
    CASE p = "initialization" -> 14
      [] p = "research_execution" -> 18
      [] OTHER -> 0

\* content[:4000] + "...(内容已截断)"
Truncate(c) ==
    [c EXCEPT !.cut = TRUE, !.len = TruncateAt + TruncMarkerLen]

-----------------------------------------------------------------------------
(* BudgetEstimator: len(msg["content"]) // 2, summed *)

Tokens(c) == c.len \div CharsPerToken

RECURSIVE SumTokens(_)
SumTokens(msgs) ==
    IF msgs = <<>> THEN 0
    ELSE Tokens(msgs[1].content) + SumTokens(Tail(msgs))

IsSystem(m) == m.role = "system"
NotSystem(m) == m.role # "system"

-----------------------------------------------------------------------------
(* manage_history_length *)

\* The loop of lines 78-84: walking non_system_messages from the newest, the
\* index of the oldest message kept (Len + 1 when none is kept).
RECURSIVE KeptFrom(_, _, _, _)
KeptFrom(non, i, current_tokens, remaining_tokens) ==
    IF i = 0 THEN 1
    ELSE IF current_tokens + Tokens(non[i].content) <= remaining_tokens
         THEN KeptFrom(non, i - 1, current_tokens + Tokens(non[i].content),
                       remaining_tokens)
         ELSE i + 1

\* The same loop with `continue` in the place of `break`: a message that does
\* not fit is skipped and older ones are still kept.
RECURSIVE KeptSkipping(_, _, _, _, _)
KeptSkipping(non, i, current_tokens, remaining_tokens, kept) ==
    IF i = 0 THEN kept
    ELSE IF current_tokens + Tokens(non[i].content) <= remaining_tokens
         THEN KeptSkipping(non, i - 1, current_tokens + Tokens(non[i].content),
                           remaining_tokens, <<non[i]>> \o kept)
         ELSE KeptSkipping(non, i - 1, current_tokens, remaining_tokens, kept)

KeptMessagesSkipping(non, remaining_tokens) ==
    KeptSkipping(non, Len(non), 0, remaining_tokens, <<>>)

\* The loop of lines 78-84 taking two messages at a time: a pair is kept
\* when both its turns fit.
RECURSIVE KeptFromPairs(_, _, _, _)
KeptFromPairs(non, i, current_tokens, remaining_tokens) ==
    IF i < 2 THEN i + 1
    ELSE LET pair_tokens == Tokens(non[i].content) + Tokens(non[i - 1].content)
         IN  IF current_tokens + pair_tokens <= remaining_tokens
             THEN KeptFromPairs(non, i - 2, current_tokens + pair_tokens,
                                remaining_tokens)
             ELSE i + 1

KeptWholePairs(non, remaining_tokens) ==
    SubSeq(non, KeptFromPairs(non, Len(non), 0, remaining_tokens), Len(non))

KeptMessages(non, remaining_tokens) ==
    SubSeq(non, KeptFrom(non, Len(non), 0, remaining_tokens), Len(non))

\* Lines 65-72 keeping the last three system messages, the first one not
\* among them.
KeptSystemLastThree(system_messages, max_tokens) ==
    IF 10 * SumTokens(system_messages) > 7 * max_tokens /\ Len(system_messages) > 3
    THEN SubSeq(system_messages, Len(system_messages) - 2, Len(system_messages))
    ELSE system_messages

\* Lines 65-72: system messages kept. max_tokens * 0.7 is exact for the
\* budgets used, so the comparison is done in integers.
KeptSystem(system_messages, max_tokens) ==
    IF 10 * SumTokens(system_messages) > 7 * max_tokens /\ Len(system_messages) > 3
    THEN <<system_messages[1]>>
         \o SubSeq(system_messages, Len(system_messages) - 1, Len(system_messages))
    ELSE system_messages

ManageHistoryLength(history, max_tokens) ==
    IF SumTokens(history) > max_tokens
    THEN LET system_messages == KeptSystem(SelectSeq(history, IsSystem), max_tokens)
             non_system_messages == SelectSeq(history, NotSystem)
             remaining_tokens == max_tokens - SumTokens(system_messages)
         IN  system_messages \o KeptMessages(non_system_messages, remaining_tokens)
    ELSE history

-----------------------------------------------------------------------------
(* ensure_alternating_roles, on payload entries [role, content, src];      *)
(* src is the index in conversation_history of the dict the entry aliases, *)
(* 0 for a dict created while building the payload.                        *)

Entry(m, src) == [role |-> m.role, content |-> m.content, src |-> src]

RECURSIVE Alternate(_, _, _)
Alternate(messages, i, result) ==
    IF i > Len(messages) THEN result
    ELSE LET current_msg == messages[i]
             prev_msg == result[Len(result)]
             filler == IF current_msg.role = "user"
                       THEN Entry(FillerAssistant, 0)
                       ELSE Entry(FillerUser, 0)
         IN  IF current_msg.role = prev_msg.role /\ current_msg.role # "system"
             THEN Alternate(messages, i + 1, result \o <<filler, current_msg>>)
             ELSE Alternate(messages, i + 1, Append(result, current_msg))

\* The repair left out: the messages are sent as they are stored.
EnsureAlternatingRolesNoFiller(messages) == messages

EnsureAlternatingRoles(messages) ==
    IF Len(messages) <= 1 THEN messages
    ELSE Alternate(messages, 2, <<messages[1]>>)

-----------------------------------------------------------------------------
(* get_response, lines 134-185: everything up to the first remote call *)

Indexed(history) == [i \in 1..Len(history) |-> Entry(history[i], i)]

\* Lines 146-161: the first system message goes first, later ones are
\* ignored; without any, the system prompt is inserted when it is not empty.
SystemFirst(history, prompt) ==
    LET all == Indexed(history)
        sys == SelectSeq(all, IsSystem)
        non == SelectSeq(all, NotSystem)
    IN  IF sys # <<>> THEN <<sys[1]>> \o non
        ELSE IF prompt.len > 0
             THEN <<Entry(Msg("system", prompt), 0)>> \o non
             ELSE non

\* Lines 170-185 keeping the first ten non-system messages, not the last.
AggressiveTrimKeepFirst(messages) ==
    IF SumTokens(messages) > HardLimit
    THEN LET system_msgs == SelectSeq(messages, IsSystem)
             non_system_msgs == SelectSeq(messages, NotSystem)
             kept_msgs == IF Len(non_system_msgs) > KeepLast
                          THEN SubSeq(non_system_msgs, 1, KeepLast)
                          ELSE non_system_msgs
         IN  system_msgs \o kept_msgs
    ELSE messages

\* Lines 170-185
AggressiveTrim(messages) ==
    IF SumTokens(messages) > HardLimit
    THEN LET system_msgs == SelectSeq(messages, IsSystem)
             non_system_msgs == SelectSeq(messages, NotSystem)
             kept_msgs == IF Len(non_system_msgs) > KeepLast
                          THEN SubSeq(non_system_msgs,
                                      Len(non_system_msgs) - KeepLast + 1,
                                      Len(non_system_msgs))
                          ELSE non_system_msgs
         IN  system_msgs \o kept_msgs
    ELSE messages

\* Lines 134-143 without the test of lines 137-139: no filler is stored.
HistoryWithUserNoFiller(history, message) ==
    Append(ManageHistoryLength(history, SendBudget), Msg("user", message))

\* Lines 134-143: the history after the new user message is appended
HistoryWithUser(history, message) ==
    LET managed == ManageHistoryLength(history, SendBudget)
        filled == IF managed # <<>> /\ managed[Len(managed)].role = "user"
                  THEN Append(managed, FillerAssistant)
                  ELSE managed
    IN  Append(filled, Msg("user", message))

BuildMessagesToSend(history, prompt) ==
    AggressiveTrim(EnsureAlternatingRoles(SystemFirst(history, prompt)))

-----------------------------------------------------------------------------
(* Inputs *)

Prompts == {Text("primer", 2000, FALSE)}
MsgLens == {3, 130000}
\* 69998: a short user turn and a reply of this length cost SendBudget
\* tokens exactly
ReplyLens == {3, 69998}
AppendLens == {3}
ContextLens == {0}              \* 0: no context given
Phases == {"initialization", "research_execution"}
SummarizedPhases == {"initialization"}
PhaseLists == {<<>>} \cup {<<p>> : p \in Phases} \cup {<<p, q>> : p, q \in Phases}
Roles == {"system", "user", "assistant"}

UserTexts == {Text("user", n, FALSE) : n \in MsgLens}
ReplyTexts == {Text("reply", n, FALSE) : n \in ReplyLens}
AppendTexts(role) ==
    {Text(CASE role = "user" -> "user" [] role = "assistant" -> "reply"
            [] OTHER -> "appended", n, FALSE) : n \in AppendLens}
\* the f-string of summarize_phase, lines 312-324
SummaryPrompt(phase, context) ==
    Text("prompt",
         SummaryPromptLen + PhaseLen(phase)
            + (IF context > 0 THEN ContextLabelLen + context ELSE 0),
         FALSE)
\* str(e) of the exception of the remote call; ctx: it contains "context length"
Errors == [len : {40}, ctx : BOOLEAN]

NoReturn == [form |-> "none", content |-> EmptyText]
NoMode == [kind |-> "none", phase |-> ""]
ModeSend == [kind |-> "send", phase |-> ""]
ModeSummarize(phase) == [kind |-> "summarize", phase |-> phase]

-----------------------------------------------------------------------------
(* __init__ *)

-----------------------------------------------------------------------------
(* AgentCoordinator: the calls it makes, in program order.  The methods of
   the phases are straight-line code: no loop, branch or thread. *)

Agents == {"phd_student", "academic_advisor", "industry_advisor"}

\* A call the coordinator makes at a line on one of its five collaborators;
\* arg holds the phases named by the call.
AgentCall(line, agent, op, arg) ==
    [line |-> line, agent |-> agent, op |-> op, arg |-> arg]

\* Lines 86-235: the calls of the phase in program order, each with its line
InitializationPhase ==
    <<AgentCall(93, "phd_student", "get_response", <<>>),
      AgentCall(99, "academic_advisor", "answer_question", <<>>),
      AgentCall(103, "industry_advisor", "answer_question", <<>>),
      AgentCall(125, "phd_student", "get_response", <<>>),
      AgentCall(129, "phd_student", "set_research_topic", <<>>),
      AgentCall(175, "phd_student", "get_response", <<>>),
      AgentCall(179, "phd_student", "set_research_plan", <<>>),
      AgentCall(182, "academic_advisor", "review_research_plan", <<>>),
      AgentCall(186, "industry_advisor", "review_research_plan", <<>>),
      AgentCall(210, "phd_student", "get_response", <<>>),
      AgentCall(214, "phd_student", "set_research_plan", <<>>),
      AgentCall(223, "phd_student", "summarize_phase", <<"initialization">>),
      AgentCall(227, "academic_advisor", "summarize_phase", <<"initialization">>),
      AgentCall(231, "industry_advisor", "summarize_phase", <<"initialization">>) >>

\* Lines 236-339: the calls of the phase in program order, each with its line
ResearchExecutionPhase ==
    <<AgentCall(247, "knowledge_module", "search_papers", <<>>),
      AgentCall(251, "phd_student", "ask_question", <<>>),
      AgentCall(257, "academic_advisor", "answer_question", <<>>),
      AgentCall(261, "phd_student", "ask_question", <<>>),
      AgentCall(267, "industry_advisor", "answer_question", <<>>),
      AgentCall(274, "knowledge_module", "consult_llm", <<>>),
      AgentCall(279, "phd_student", "ask_question", <<>>),
      AgentCall(285, "academic_advisor", "answer_question", <<>>),
      AgentCall(289, "phd_student", "ask_question", <<>>),
      AgentCall(295, "industry_advisor", "answer_question", <<>>),
      AgentCall(311, "phd_student", "get_response", <<>>),
      AgentCall(322, "phd_student", "inject_memories_to_context",
                 <<"initialization">>),
      AgentCall(323, "academic_advisor", "inject_memories_to_context",
                 <<"initialization">>),
      AgentCall(324, "industry_advisor", "inject_memories_to_context",
                 <<"initialization">>),
      AgentCall(327, "phd_student", "summarize_phase", <<"research_execution">>),
      AgentCall(331, "academic_advisor", "summarize_phase",
                 <<"research_execution">>),
      AgentCall(335, "industry_advisor", "summarize_phase",
                 <<"research_execution">>) >>

\* Lines 340-764: the calls of the phase in program order, each with its line
PaperWritingPhase ==
    <<AgentCall(347, "phd_student", "ask_question", <<>>),
      AgentCall(353, "academic_advisor", "answer_question", <<>>),
      AgentCall(357, "phd_student", "ask_question", <<>>),
      AgentCall(363, "industry_advisor", "answer_question", <<>>),
      AgentCall(367, "phd_student", "ask_question", <<>>),
      AgentCall(373, "academic_advisor", "answer_question", <<>>),
      AgentCall(417, "phd_student", "get_response", <<>>),
      AgentCall(421, "phd_student", "update_paper_draft", <<>>),
      AgentCall(429, "academic_advisor", "review_paper_draft", <<>>),
      AgentCall(433, "industry_advisor", "review_paper_draft", <<>>),
      AgentCall(484, "phd_student", "get_response", <<>>),
      AgentCall(550, "phd_student", "get_response", <<>>),
      AgentCall(643, "phd_student", "get_response", <<>>),
      AgentCall(691, "phd_student", "get_response", <<>>),
      AgentCall(728, "phd_student", "get_response", <<>>),
      AgentCall(732, "phd_student", "update_paper_draft", <<>>),
      AgentCall(747, "phd_student", "inject_memories_to_context",
                 <<"initialization", "research_execution">>),
      AgentCall(748, "academic_advisor", "inject_memories_to_context",
                 <<"initialization", "research_execution">>),
      AgentCall(749, "industry_advisor", "inject_memories_to_context",
                 <<"initialization", "research_execution">>),
      AgentCall(752, "phd_student", "summarize_phase", <<"paper_writing">>),
      AgentCall(756, "academic_advisor", "summarize_phase", <<"paper_writing">>),
      AgentCall(760, "industry_advisor", "summarize_phase", <<"paper_writing">>) >>

\* Lines 765-1147: the calls of the phase in program order, each with its line
PaperOptimizationPhase ==
    <<AgentCall(775, "evaluation_module", "evaluate_paper", <<>>),
      AgentCall(779, "evaluation_module", "generate_improvement_plan", <<>>),
      AgentCall(783, "phd_student", "ask_question", <<>>),
      AgentCall(796, "academic_advisor", "answer_question", <<>>),
      AgentCall(800, "phd_student", "ask_question", <<>>),
      AgentCall(813, "industry_advisor", "answer_question", <<>>),
      AgentCall(817, "phd_student", "ask_question", <<>>),
      AgentCall(830, "academic_advisor", "answer_question", <<>>),
      AgentCall(834, "phd_student", "ask_question", <<>>),
      AgentCall(847, "industry_advisor", "answer_question", <<>>),
      AgentCall(886, "phd_student", "get_response", <<>>),
      AgentCall(935, "phd_student", "get_response", <<>>),
      AgentCall(964, "phd_student", "get_response", <<>>),
      AgentCall(1012, "phd_student", "get_response", <<>>),
      AgentCall(1045, "phd_student", "get_response", <<>>),
      AgentCall(1049, "phd_student", "update_paper_draft", <<>>),
      AgentCall(1057, "academic_advisor", "review_paper_draft", <<>>),
      AgentCall(1061, "industry_advisor", "review_paper_draft", <<>>),
      AgentCall(1111, "phd_student", "get_response", <<>>),
      AgentCall(1115, "phd_student", "update_paper_draft", <<>>),
      AgentCall(1130, "phd_student", "inject_memories_to_context",
                 <<"initialization", "research_execution", "paper_writing">>),
      AgentCall(1131, "academic_advisor", "inject_memories_to_context",
                 <<"initialization", "research_execution", "paper_writing">>),
      AgentCall(1132, "industry_advisor", "inject_memories_to_context",
                 <<"initialization", "research_execution", "paper_writing">>),
      AgentCall(1135, "phd_student", "summarize_phase", <<"paper_optimization">>),
      AgentCall(1139, "academic_advisor", "summarize_phase",
                 <<"paper_optimization">>),
      AgentCall(1143, "industry_advisor", "summarize_phase",
                 <<"paper_optimization">>) >>

\* Lines 1148-1282: the calls of the phase in program order, each with its line
PaperFinalizationPhase ==
    <<AgentCall(1158, "phd_student", "ask_question", <<>>),
      AgentCall(1164, "academic_advisor", "answer_question", <<>>),
      AgentCall(1174, "phd_student", "get_response", <<>>),
      AgentCall(1181, "evaluation_module", "check_publication_readiness", <<>>),
      AgentCall(1193, "phd_student", "get_response", <<>>),
      AgentCall(1197, "phd_student", "update_paper_draft", <<>>),
      AgentCall(1205, "academic_advisor", "get_response", <<>>),
      AgentCall(1211, "industry_advisor", "get_response", <<>>),
      AgentCall(1244, "phd_student", "inject_memories_to_context",
                 <<"initialization", "research_execution", "paper_writing", "paper_optimization">>),
      AgentCall(1245, "academic_advisor", "inject_memories_to_context",
                 <<"initialization", "research_execution", "paper_writing", "paper_optimization">>),
      AgentCall(1246, "industry_advisor", "inject_memories_to_context",
                 <<"initialization", "research_execution", "paper_writing", "paper_optimization">>),
      AgentCall(1249, "phd_student", "summarize_phase", <<"paper_finalization">>),
      AgentCall(1253, "academic_advisor", "summarize_phase",
                 <<"paper_finalization">>),
      AgentCall(1257, "industry_advisor", "summarize_phase",
                 <<"paper_finalization">>),
      AgentCall(1275, "phd_student", "get_response", <<>>),
      AgentCall(1279, "phd_student", "create_memory", <<"project_summary">>) >>

\* start_interaction with the first two phases in the other order
PhaseOrderSwapped ==
    <<"research_execution", "initialization", "paper_writing",
      "paper_optimization", "paper_finalization">>

\* start_interaction, lines 62-82
PhaseOrder ==
    <<"initialization", "research_execution", "paper_writing",
      "paper_optimization", "paper_finalization">>

PhaseScript(phase) ==
    CASE phase = "initialization" -> InitializationPhase
      [] phase = "research_execution" -> ResearchExecutionPhase
      [] phase = "paper_writing" -> PaperWritingPhase
      [] phase = "paper_optimization" -> PaperOptimizationPhase
      [] phase = "paper_finalization" -> PaperFinalizationPhase

\* __init__, lines 33-41; the agents are constructed with empty memory banks
\* (main.py).  phase_no counts the phases start_interaction has entered,
\* step the calls of the phase that returned, running holds the
\* collaborator whose operation is in progress, banks the phases of the
\* entries of each agent's memory_bank, access the accesses to a
\* memory_bank made by the last step.
CoordInit ==
    [current_phase |-> "initialization",
     phase_no |-> 0,
     step |-> 0,
     running |-> {},
     banks |-> [a \in Agents |-> <<>>],
     access |-> {},
     saved |-> FALSE]

Init ==
    /\ system_prompt \in Prompts
    /\ conversation_history =
          IF system_prompt.len > 0 THEN <<Msg("system", system_prompt)>> ELSE <<>>
    /\ memory_bank = <<>>
    /\ pc = "Idle"
    /\ messages_to_send = <<>>
    /\ ret = NoReturn
    /\ calls = 0
    /\ mode = NoMode
    /\ raised = <<>>
    /\ lastOp = "init"
    /\ coord = CoordInit

CanCall == pc \in {"Idle", "Failed"}

-----------------------------------------------------------------------------
(* get_response *)

\* create_memory overwriting the entry the phase already has, if any.
CreateMemoryReplacing(bank, phase, content) ==
    IF \E i \in 1..Len(bank) : bank[i].phase = phase
    THEN [i \in 1..Len(bank) |->
             IF bank[i].phase = phase THEN [phase |-> phase, content |-> content]
             ELSE bank[i]]
    ELSE Append(bank, [phase |-> phase, content |-> content])

\* create_memory: appended by summarize_phase once get_response has returned
CreateMemory(bank, phase, content) ==
    Append(bank, [phase |-> phase, content |-> content])

\* What happens when get_response returns `content`: the caller gets the
\* string; summarize_phase stores it as the memory of the phase.
Return(content, state) ==
    /\ ret' = [form |-> "str", content |-> content]
    /\ pc' = state
    /\ lastOp' = mode.kind
    /\ mode' = NoMode
    /\ messages_to_send' = <<>>
    /\ memory_bank' = IF mode.kind = "summarize"
                      THEN CreateMemory(memory_bank, mode.phase, content)
                      ELSE memory_bank
    /\ UNCHANGED coord

\* Lines 134-193 up to the call of self.client.chat.completions.create
StartCall(history, message, m) ==
    /\ conversation_history' = HistoryWithUser(history, message)
    /\ messages_to_send' = BuildMessagesToSend(conversation_history', system_prompt)
    /\ calls' = 1
    /\ pc' = "Sending"
    /\ mode' = m
    /\ ret' = NoReturn
    /\ raised' = <<>>
    /\ UNCHANGED <<system_prompt, memory_bank, lastOp, coord>>

Send(message) ==
    /\ CanCall
    /\ StartCall(conversation_history, message, ModeSend)

\* Lines 194-199
ReplyOk(reply) ==
    /\ pc = "Sending"
    /\ conversation_history' = Append(conversation_history, Msg("assistant", reply))
    /\ Return(reply, "Idle")
    /\ UNCHANGED <<system_prompt, calls, raised>>

\* f"API调用出错: {str(e)}" and f"API调用重试失败: {str(retry_error)}"
ErrorMessage(e) == Text("error", ErrPrefixLen + e.len, FALSE)
RetryErrorMessage(e) == Text("retry_error", RetryErrPrefixLen + e.len, FALSE)

\* The same handler storing the error message as the assistant's turn.
ReplyErrorStored(e) ==
    /\ pc = "Sending"
    /\ ~e.ctx
    /\ raised' = Append(raised, e)
    /\ conversation_history' =
          Append(conversation_history, Msg("assistant", ErrorMessage(e)))
    /\ Return(ErrorMessage(e), "Failed")
    /\ UNCHANGED <<system_prompt, calls>>

\* Lines 201-206, 240: an error that is not about the context length
ReplyError(e) ==
    /\ pc = "Sending"
    /\ ~e.ctx
    /\ raised' = Append(raised, e)
    /\ Return(ErrorMessage(e), "Failed")
    /\ UNCHANGED <<system_prompt, conversation_history, calls>>

\* Lines 214-217: the last user dict of the payload, cut when it is too long.
\* The dict is the one stored in conversation_history (src > 0) unless it
\* was created for the payload, so the stored turn changes with it.
LastUserMsg(messages) ==
    LET user_msgs == SelectSeq(messages, LAMBDA m : m.role = "user")
    IN  user_msgs[Len(user_msgs)]

\* Line 216 with >= in the place of >: a text of exactly the ceiling is cut.
CutIfLongAtCeiling(msg) ==
    IF msg.content.len >= TruncateAt
    THEN [msg EXCEPT !.content = Truncate(msg.content)]
    ELSE msg

CutIfLong(msg) ==
    IF msg.content.len > TruncateAt
    THEN [msg EXCEPT !.content = Truncate(msg.content)]
    ELSE msg

HistoryAfterCut(history, msg) ==
    IF msg.src > 0 /\ msg.content.len > TruncateAt
    THEN [history EXCEPT ![msg.src].content = Truncate(msg.content)]
    ELSE history

\* Lines 210-220
RetryMessages(messages) ==
    SelectSeq(messages, IsSystem) \o <<CutIfLong(LastUserMsg(messages))>>

\* Lines 206-227: a context-length error, up to the retry call
ReplyOverflow(e) ==
    /\ pc = "Sending"
    /\ e.ctx
    /\ raised' = Append(raised, e)
    /\ IF SelectSeq(messages_to_send, LAMBDA m : m.role = "user") # <<>>
       THEN /\ conversation_history' =
                  HistoryAfterCut(conversation_history, LastUserMsg(messages_to_send))
            /\ messages_to_send' = RetryMessages(messages_to_send)
            /\ calls' = 2
            /\ pc' = "Retrying"
            /\ UNCHANGED <<memory_bank, ret, lastOp, mode, coord>>
       ELSE /\ Return(ErrorMessage(e), "Failed")
            /\ UNCHANGED <<conversation_history, calls>>
    /\ UNCHANGED system_prompt

\* Lines 228-236
RetryOk(reply) ==
    /\ pc = "Retrying"
    /\ conversation_history' =
          ManageHistoryLength(Append(conversation_history, Msg("assistant", reply)),
                              RetryBudget)
    /\ Return(reply, "Idle")
    /\ UNCHANGED <<system_prompt, calls, raised>>

\* The handler of lines 237-238 letting the error of the retry out of
\* get_response.
RetryErrorRaised(e) ==
    /\ pc = "Retrying"
    /\ raised' = Append(raised, e)
    /\ pc' = "Raised"
    /\ UNCHANGED <<system_prompt, conversation_history, memory_bank,
                   messages_to_send, ret, calls, mode, lastOp, coord>>

\* The handler of lines 237-238 taking the user turn of the failed call out
\* of the history.
RetryErrorRollback(e) ==
    /\ pc = "Retrying"
    /\ raised' = Append(raised, e)
    /\ conversation_history' =
          SubSeq(conversation_history, 1, Len(conversation_history) - 1)
    /\ Return(RetryErrorMessage(e), "Failed")
    /\ UNCHANGED <<system_prompt, calls>>

\* Lines 237-238
RetryError(e) ==
    /\ pc = "Retrying"
    /\ raised' = Append(raised, e)
    /\ Return(RetryErrorMessage(e), "Failed")
    /\ UNCHANGED <<system_prompt, conversation_history, calls>>

-----------------------------------------------------------------------------
(* summarize_phase: lines 326-330; create_memory follows in Return *)

SummarizePhase(phase, context) ==
    /\ CanCall
    /\ StartCall(ManageHistoryLength(conversation_history, SummarizeBudget),
                 SummaryPrompt(phase, context), ModeSummarize(phase))

-----------------------------------------------------------------------------
(* add_message_to_history, clear_history *)

AddMessageToHistory(history, role, content) ==
    LET managed == ManageHistoryLength(history, DefaultBudget)
        filled == IF managed # <<>> /\ managed[Len(managed)].role = role
                     /\ role # "system"
                  THEN Append(managed,
                              IF role = "user" THEN FillerAssistant ELSE FillerUser)
                  ELSE managed
    IN  Append(filled, Msg(role, content))

\* The operations that make no remote call return None
Idle(op) ==
    /\ pc' = "Idle"
    /\ lastOp' = op
    /\ ret' = NoReturn
    /\ calls' = 0
    /\ messages_to_send' = <<>>
    /\ raised' = <<>>
    /\ UNCHANGED <<system_prompt, mode, coord>>

AppendTurn(role, content) ==
    /\ CanCall
    /\ conversation_history' = AddMessageToHistory(conversation_history, role, content)
    /\ Idle("append")
    /\ UNCHANGED memory_bank

\* The name of the operation with its argument
ClearOp(keep_system_prompt) ==
    IF keep_system_prompt THEN "clear(True)" ELSE "clear(False)"

\* clear_history leaving the injected memory entries in storage.
ClearHistoryKeepingPinned(keep_system_prompt) ==
    /\ CanCall
    /\ conversation_history' =
          (IF keep_system_prompt /\ system_prompt.len > 0
           THEN <<Msg("system", system_prompt)>>
           ELSE <<>>)
          \o SelectSeq(conversation_history,
                       LAMBDA m : m.role = "system" /\ m.content.tag = "memory")
    /\ Idle(ClearOp(keep_system_prompt))
    /\ UNCHANGED memory_bank

ClearHistory(keep_system_prompt) ==
    /\ CanCall
    /\ conversation_history' =
          IF keep_system_prompt /\ system_prompt.len > 0
          THEN <<Msg("system", system_prompt)>>
          ELSE <<>>
    /\ Idle(ClearOp(keep_system_prompt))
    /\ UNCHANGED memory_bank

-----------------------------------------------------------------------------
(* get_memories, inject_memories_to_context *)

GetMemories(bank, phase) == SelectSeq(bank, LAMBDA m : m.phase = phase)

\* Lines 358-365
RECURSIVE MemoriesOfPhases(_, _)
MemoriesOfPhases(bank, phases) ==
    IF phases = <<>> THEN <<>>
    ELSE GetMemories(bank, phases[1]) \o MemoriesOfPhases(bank, Tail(phases))

MemoriesToInject(bank, phases) ==
    IF phases # <<>> THEN MemoriesOfPhases(bank, phases) ELSE bank

\* len of f"--- {phase} 阶段总结 ---\n{content}\n\n"
MemoryTextLen(memory) == MemWrapLen + PhaseLen(memory.phase) + memory.content.len

\* The loop with `break` in the place of `continue`: it stops at the first
\* entry that does not fit.
RECURSIVE FoldStopping(_, _, _, _)
FoldStopping(memories, i, current_tokens, folded) ==
    IF i = 0 THEN folded
    ELSE LET estimated_tokens == MemoryTextLen(memories[i]) \div CharsPerToken
         IN  IF current_tokens + estimated_tokens > MaxMemoryTokens
             THEN folded
             ELSE FoldStopping(memories, i - 1, current_tokens + estimated_tokens,
                               <<memories[i]>> \o folded)

\* The loop of lines 378-389, from the newest entry (index i) down: the
\* entries folded, in the order they have in the text.
RECURSIVE Fold(_, _, _, _)
Fold(memories, i, current_tokens, folded) ==
    IF i = 0 THEN folded
    ELSE LET estimated_tokens == MemoryTextLen(memories[i]) \div CharsPerToken
         IN  IF current_tokens + estimated_tokens > MaxMemoryTokens
             THEN Fold(memories, i - 1, current_tokens, folded)
             ELSE Fold(memories, i - 1, current_tokens + estimated_tokens,
                       <<memories[i]>> \o folded)

RECURSIVE SumMemoryLen(_)
SumMemoryLen(memories) ==
    IF memories = <<>> THEN 0
    ELSE MemoryTextLen(memories[1]) + SumMemoryLen(Tail(memories))

\* The injected text without the text of lines 392-393.
MemoryContentNoPlaceholder(memories) ==
    LET folded == Fold(memories, Len(memories), 0, <<>>)
    IN  [tag |-> "memory",
         len |-> SumMemoryLen(folded) + MemHeaderLen,
         mark |-> folded # <<>>,
         cut |-> FALSE,
         parts |-> folded]

\* Lines 371-393: the injected text
MemoryContent(memories) ==
    LET folded == Fold(memories, Len(memories), 0, <<>>)
    IN  [tag |-> "memory",
         len |-> SumMemoryLen(folded) + MemHeaderLen
                    + (IF folded = <<>> THEN MemPlaceholderLen ELSE 0),
         mark |-> folded # <<>>,
         cut |-> FALSE,
         parts |-> folded]

\* Lines 397-398
IsStaleMemory(msg) == msg.role = "system" /\ msg.content.mark

RemoveStale(history) == SelectSeq(history, LAMBDA m : ~IsStaleMemory(m))

\* Lines 395-402 without the call of line 404.
InjectIntoNoTrim(history, memories) ==
    AddMessageToHistory(RemoveStale(history), "system", MemoryContent(memories))

\* Lines 395-404
InjectInto(history, memories) ==
    ManageHistoryLength(
        AddMessageToHistory(RemoveStale(history), "system", MemoryContent(memories)),
        DefaultBudget)

InjectMemories(phases) ==
    /\ CanCall
    /\ LET memories_to_inject == MemoriesToInject(memory_bank, phases)
       IN  conversation_history' =
              IF memories_to_inject = <<>> THEN conversation_history
              ELSE InjectInto(conversation_history, memories_to_inject)
    /\ Idle("inject")
    /\ UNCHANGED memory_bank

-----------------------------------------------------------------------------

\* The bounds: an operation is taken when the turns it stores, and the reply
\* a call may still add, fit in MaxHist, and a phase is summarized while the
\* memory bank holds fewer than MaxMem entries.
Fits(n) == Len(conversation_history') + (IF pc' = "Sending" THEN 1 ELSE 0) <= n

Next ==
    \/ \E message \in UserTexts : Send(message) /\ Fits(MaxHist)
    \/ \E reply \in ReplyTexts : ReplyOk(reply)
    \/ \E e \in Errors : ReplyError(e)
    \/ \E e \in Errors : ReplyOverflow(e)
    \/ \E reply \in ReplyTexts : RetryOk(reply)
    \/ \E e \in Errors : RetryError(e)
    \/ \E phase \in SummarizedPhases, context \in ContextLens :
          Len(memory_bank) < MaxMem /\ SummarizePhase(phase, context) /\ Fits(MaxHist)
    \/ \E role \in Roles : \E content \in AppendTexts(role) :
          AppendTurn(role, content) /\ Fits(MaxHist)
    \/ \E keep \in BOOLEAN : ClearHistory(keep)
    \/ \E phases \in PhaseLists : InjectMemories(phases) /\ Fits(MaxHist)

Spec == Init /\ [][Next]_vars

-----------------------------------------------------------------------------
(* The same agent a long conversation later.  SpecLong starts either as    *)
(* Spec does or from the state that LongTurns calls of                     *)
(* add_message_to_history, with short texts of alternating roles, leave    *)
(* behind; the turns stored may exceed MaxHist by LongRoom while the       *)
(* history is still that long.                                             *)

LongHistory(prompt, n) ==
    <<Msg("system", prompt)>>
    \o [i \in 1..n |-> IF i % 2 = 1
                       THEN Msg("user", Text("user", 3, FALSE))
                       ELSE Msg("assistant", Text("reply", 3, FALSE))]

InitLong ==
    /\ system_prompt \in Prompts
    /\ \/ /\ conversation_history = <<Msg("system", system_prompt)>>
          /\ lastOp = "init"
       \/ /\ conversation_history = LongHistory(system_prompt, LongTurns)
          /\ lastOp = "append"
    /\ memory_bank = <<>>
    /\ pc = "Idle"
    /\ messages_to_send = <<>>
    /\ ret = NoReturn
    /\ calls = 0
    /\ mode = NoMode
    /\ raised = <<>>
    /\ coord = CoordInit

FitsLong ==
    \/ Fits(MaxHist)
    \/ Len(conversation_history) > LongTurns /\ Fits(LongTurns + 1 + LongRoom)

NextLong ==
    \/ \E message \in UserTexts : Send(message) /\ FitsLong
    \/ \E reply \in ReplyTexts : ReplyOk(reply)
    \/ \E e \in Errors : ReplyError(e)
    \/ \E e \in Errors : ReplyOverflow(e)
    \/ \E reply \in ReplyTexts : RetryOk(reply)
    \/ \E e \in Errors : RetryError(e)
    \/ \E phase \in SummarizedPhases, context \in ContextLens :
          Len(memory_bank) < MaxMem /\ SummarizePhase(phase, context) /\ FitsLong
    \/ \E role \in Roles : \E content \in AppendTexts(role) :
          AppendTurn(role, content) /\ FitsLong
    \/ \E keep \in BOOLEAN : ClearHistory(keep)
    \/ \E phases \in PhaseLists : InjectMemories(phases) /\ FitsLong

SpecLong == InitLong /\ [][NextLong]_vars

-----------------------------------------------------------------------------
(* The same agent constructed with a system prompt that costs more than    *)
(* any budget the code applies.                                            *)

BigPrompts == {Text("primer", 80000, FALSE)}

InitBig ==
    /\ system_prompt \in BigPrompts
    /\ conversation_history = <<Msg("system", system_prompt)>>
    /\ memory_bank = <<>>
    /\ pc = "Idle"
    /\ messages_to_send = <<>>
    /\ ret = NoReturn
    /\ calls = 0
    /\ mode = NoMode
    /\ raised = <<>>
    /\ lastOp = "init"
    /\ coord = CoordInit

SpecBig == InitBig /\ [][Next]_vars

-----------------------------------------------------------------------------
(* The same agent after a get_response whose first call overflowed and     *)
(* whose retry succeeded: the state that Send, ReplyOverflow, RetryOk      *)
(* leave behind, short texts all along.                                    *)

InitRecovered ==
    /\ system_prompt \in Prompts
    /\ conversation_history =
          <<Msg("system", system_prompt), Msg("user", Text("user", 3, FALSE)),
            Msg("assistant", Text("reply", 3, FALSE))>>
    /\ memory_bank = <<>>
    /\ pc = "Idle"
    /\ messages_to_send = <<>>
    /\ ret = [form |-> "str", content |-> Text("reply", 3, FALSE)]
    /\ calls = 2
    /\ mode = NoMode
    /\ raised = <<[len |-> 40, ctx |-> TRUE]>>
    /\ lastOp = "send"
    /\ coord = CoordInit

SpecRecovered == InitRecovered /\ [][Next]_vars

-----------------------------------------------------------------------------
(* The phases of a run, summarized one after the other: summarize_phase    *)
(* for every phase, summaries of three lengths, the memory bank one entry  *)
(* longer than in Spec; get_response with short messages, clear_history    *)
(* and inject_memories_to_context between them; the remote call answers    *)
(* every time.                                                             *)

\* 19966: the memory text of a summary of this length costs the memory
\* ceiling or just less (10000 and 9998 tokens for the two phases), so two
\* of them fit the ceiling one at a time and not together
SummaryLens == {3, 19966, 69998}
SummaryTexts == {Text("reply", n, FALSE) : n \in SummaryLens}
ShortTexts == {Text("user", 3, FALSE)}

NextMem ==
    \/ \E message \in ShortTexts : Send(message) /\ Fits(MaxHist)
    \/ \E reply \in SummaryTexts : ReplyOk(reply)
    \/ \E phase \in Phases, context \in ContextLens :
          Len(memory_bank) <= MaxMem /\ SummarizePhase(phase, context) /\ Fits(MaxHist)
    \/ \E keep \in BOOLEAN : ClearHistory(keep)
    \/ \E phases \in PhaseLists : InjectMemories(phases) /\ Fits(MaxHist)

SpecMem == Init /\ [][NextMem]_vars

-----------------------------------------------------------------------------
(* The remote call is synchronous: self.client.chat.completions.create
   returns a response or raises (lines 190-194 and 222-226), so a call in
   flight is answered. *)

Answer ==
    \/ \E reply \in ReplyTexts : ReplyOk(reply)
    \/ \E e \in Errors : ReplyError(e)
    \/ \E e \in Errors : ReplyOverflow(e)
    \/ \E reply \in ReplyTexts : RetryOk(reply)
    \/ \E e \in Errors : RetryError(e)

\* get_response calls, their answers, and clear_history between them
NextLive ==
    \/ \E message \in UserTexts : Send(message) /\ Fits(MaxHist)
    \/ \E reply \in ReplyTexts : ReplyOk(reply)
    \/ \E e \in Errors : ReplyError(e)
    \/ \E e \in Errors : ReplyOverflow(e)
    \/ \E reply \in ReplyTexts : RetryOk(reply)
    \/ \E e \in Errors : RetryError(e)
    \/ \E keep \in BOOLEAN : ClearHistory(keep)

SpecLive == Init /\ [][NextLive]_vars /\ WF_vars(Answer)

-----------------------------------------------------------------------------
(* get_response with user texts at the ceiling of the retry and one
   character over it. *)

CutLens == {TruncateAt, TruncateAt + 1}
CutTexts == {Text("user", n, FALSE) : n \in CutLens}

NextCut ==
    \/ \E message \in CutTexts : Send(message) /\ Fits(MaxHist)
    \/ \E reply \in ReplyTexts : ReplyOk(reply)
    \/ \E e \in Errors : ReplyError(e)
    \/ \E e \in Errors : ReplyOverflow(e)
    \/ \E reply \in ReplyTexts : RetryOk(reply)
    \/ \E e \in Errors : RetryError(e)
    \/ \E keep \in BOOLEAN : ClearHistory(keep)

SpecCut == Init /\ [][NextCut]_vars

-----------------------------------------------------------------------------
(* manage_history_length applied to short histories: a primer of 10 tokens,
   turns of 2 and 4 tokens appended in user/assistant alternation, and a
   budget of 20 tokens. *)

EvictPrompts == {Text("primer", 20, FALSE)}
TurnLens == {4, 8}
EvictBudgets == {20}

InitEvict ==
    /\ system_prompt \in EvictPrompts
    /\ conversation_history = <<Msg("system", system_prompt)>>
    /\ memory_bank = <<>>
    /\ pc = "Idle"
    /\ messages_to_send = <<>>
    /\ ret = NoReturn
    /\ calls = 0
    /\ mode = NoMode
    /\ raised = <<>>
    /\ lastOp = "init"
    /\ coord = CoordInit

ManageHistory(max_tokens) ==
    /\ CanCall
    /\ conversation_history' = ManageHistoryLength(conversation_history, max_tokens)
    /\ Idle("manage")
    /\ UNCHANGED memory_bank

\* The role the next turn of the alternation has
NextRole(history) ==
    IF history[Len(history)].role = "user" THEN "assistant" ELSE "user"

NextEvict ==
    \/ \E n \in TurnLens :
          /\ AppendTurn(NextRole(conversation_history),
                        Text(IF NextRole(conversation_history) = "user"
                             THEN "user" ELSE "reply", n, FALSE))
          /\ Len(conversation_history') <= 1 + 2 * MaxPairs
    \/ \E max_tokens \in EvictBudgets : ManageHistory(max_tokens)

SpecEvict == InitEvict /\ [][NextEvict]_vars

-----------------------------------------------------------------------------
(* AgentCoordinator.start_interaction and the saving of the memories that
   main.py makes after it.  The calls are synchronous: the coordinator makes
   the next call when the one in progress has returned. *)

CurrentScript == PhaseScript(coord.current_phase)

Finished(c) == c.phase_no >= 1 /\ c.step = Len(PhaseScript(c.current_phase))

\* Lines 62-82: self.current_phase = ...; the method of the phase is entered
EnterPhase ==
    /\ coord.running = {}
    /\ coord.phase_no = 0 \/ Finished(coord)
    /\ coord.phase_no < Len(PhaseOrder)
    /\ coord' = [coord EXCEPT !.current_phase = PhaseOrder[coord.phase_no + 1],
                              !.phase_no = coord.phase_no + 1,
                              !.step = 0,
                              !.access = {}]
    /\ UNCHANGED agentVars

\* The next call of the phase is made
CallAgent ==
    /\ coord.running = {}
    /\ coord.phase_no >= 1
    /\ coord.step < Len(CurrentScript)
    /\ coord' = [coord EXCEPT !.running = {CurrentScript[coord.step + 1].agent},
                              !.access = {}]
    /\ UNCHANGED agentVars

\* What an operation does to the memory_bank of its agent: summarize_phase
\* appends through its own create_memory (base_agent.py line 333),
\* create_memory called by the coordinator appends (line 298),
\* inject_memories_to_context reads (lines 358-365).
BankAccess(call) ==
    CASE call.op = "summarize_phase" ->
            {[agent |-> call.agent, kind |-> "write", by |-> "summarize_phase"]}
      [] call.op = "create_memory" ->
            {[agent |-> call.agent, kind |-> "write", by |-> "coordinator"]}
      [] call.op = "inject_memories_to_context" ->
            {[agent |-> call.agent, kind |-> "read",
              by |-> "inject_memories_to_context"]}
      [] OTHER -> {}

\* The return of a call when summarize_phase stores no entry
ReturnAgentNoMemory ==
    /\ coord.running # {}
    /\ LET call == CurrentScript[coord.step + 1]
       IN  coord' = [coord EXCEPT
                       !.running = {},
                       !.step = coord.step + 1,
                       !.banks = IF call.op = "create_memory"
                                 THEN [coord.banks EXCEPT
                                         ![call.agent] = Append(@, call.arg[1])]
                                 ELSE coord.banks,
                       !.access = BankAccess(call)]
    /\ UNCHANGED agentVars

\* The call in progress returns
ReturnAgent ==
    /\ coord.running # {}
    /\ LET call == CurrentScript[coord.step + 1]
       IN  coord' = [coord EXCEPT
                       !.running = {},
                       !.step = coord.step + 1,
                       !.banks = IF call.op \in {"summarize_phase", "create_memory"}
                                 THEN [coord.banks EXCEPT
                                         ![call.agent] = Append(@, call.arg[1])]
                                 ELSE coord.banks,
                       !.access = BankAccess(call)]
    /\ UNCHANGED agentVars

\* save_agent_memories, lines 1307-1333: json.dump of each agent's
\* memory_bank
SaveAgentMemories ==
    /\ coord.running = {}
    /\ coord.phase_no = Len(PhaseOrder) /\ Finished(coord)
    /\ ~coord.saved
    /\ coord' = [coord EXCEPT
                    !.saved = TRUE,
                    !.access = {[agent |-> a, kind |-> "read", by |-> "coordinator"]
                                  : a \in Agents}]
    /\ UNCHANGED agentVars

NextWorkflow ==
    \/ EnterPhase
    \/ CallAgent
    \/ ReturnAgent
    \/ SaveAgentMemories

SpecWorkflow == Init /\ [][NextWorkflow]_vars

-----------------------------------------------------------------------------
(* Properties *)

InFlight == pc \in {"Sending", "Retrying"}
NonSystem(messages) == SelectSeq(messages, NotSystem)
Systems(messages) == SelectSeq(messages, IsSystem)
IsPrimer(m) == m.role = "system" /\ m.content = system_prompt
IsPinned(m) == m.role = "system" /\ m.content.tag = "memory"
Pinned(messages) == SelectSeq(messages, IsPinned)
Last(messages) == messages[Len(messages)]
Budgets == {SendBudget, DefaultBudget, RetryBudget, SummarizeBudget}

\* C1: the list passed to the remote call by the first attempt of a
\* get_response costs no more than the budget of that call (35000), when the
\* primer alone fits in it.
C1_CapacityInvariant ==
    (pc = "Sending" /\ Tokens(system_prompt) <= SendBudget)
        => SumTokens(messages_to_send) <= SendBudget

\* C2: in every list passed to the remote call, first attempt or retry, no
\* two consecutive non-system turns have the same role.
C2_Alternation ==
    InFlight =>
        LET non == NonSystem(messages_to_send)
        IN  \A i \in 1..(Len(non) - 1) : non[i].role # non[i + 1].role

\* C2 witness: a first attempt whose payload holds a filler that is not
\* stored, the stored history having two turns of one role with nothing but
\* system turns between them.
C2_Witness ==
    /\ pc = "Sending"
    /\ \E i \in 1..Len(messages_to_send) :
          messages_to_send[i].src = 0 /\ messages_to_send[i].role # "system"
    /\ LET non == NonSystem(conversation_history)
       IN  \E i \in 1..(Len(non) - 1) : non[i].role = non[i + 1].role

\* The turns manage_history_length(max_tokens) leaves of `before`, among the
\* turns that satisfy Evictable, are the newest ones, in order, and as few
\* turns are removed as makes the history fit.
FifoEviction(history, max_tokens, Evictable(_)) ==
    LET after == ManageHistoryLength(history, max_tokens)
        before == SelectSeq(history, Evictable)
        survivors == SelectSeq(after, Evictable)
        n == Len(before)
        k == n - Len(survivors)
        fixed == SelectSeq(after, LAMBDA m : ~Evictable(m))
    IN  /\ k >= 0
        /\ survivors = SubSeq(before, k + 1, n)
        /\ k > 0 => SumTokens(fixed) + SumTokens(SubSeq(before, k, n)) > max_tokens
        /\ SumTokens(history) <= max_tokens => after = history

\* C3 as stated: eviction takes the oldest k of the stored non-primer turns
\* and leaves the others, in order, k the smallest number that fits.
C3_FifoNonPrimer ==
    \A b \in Budgets :
        FifoEviction(conversation_history, b, LAMBDA m : ~IsPrimer(m))

\* The stored non-system turns that the payload of a first attempt holds
\* are the newest ones, in their stored order.
PayloadKeepsNewest ==
    LET sent == SelectSeq(messages_to_send, LAMBDA m : m.role # "system" /\ m.src > 0)
        stored == {i \in 1..Len(conversation_history) :
                      conversation_history[i].role # "system"}
    IN  /\ \A j \in 1..Len(sent) : sent[j].src \in stored
        /\ \A j \in 1..(Len(sent) - 1) : sent[j].src < sent[j + 1].src
        /\ \A i \in stored : \A j \in 1..Len(sent) :
               i > sent[j].src => \E l \in 1..Len(sent) : sent[l].src = i

\* C3 amended: manage_history_length takes the oldest k of the stored
\* non-system turns and leaves the newer ones, in order, k the smallest
\* number for which the system turns kept and the survivors fit the budget;
\* system turns are not subject to this order.  The trim of the payload
\* drops oldest non-system turns first as well.
C3_FifoNonSystem ==
    /\ \A b \in Budgets : FifoEviction(conversation_history, b, NotSystem)
    /\ pc = "Sending" => PayloadKeepsNewest

\* C3 witness: a get_response whose eviction removed the user turn that a
\* long reply answered and kept that reply (replies of this length come from
\* the remote call alone).
C3_Witness ==
    /\ pc = "Sending"
    /\ Len(conversation_history) >= 2
    /\ conversation_history[1].role = "assistant"
    /\ conversation_history[1].content.len > TruncateAt

\* C4: with a non-empty system prompt, every list passed to the remote call
\* starts with the primer and holds it exactly once.
C4_PrimerFirst ==
    (InFlight /\ system_prompt.len > 0) =>
        /\ messages_to_send # <<>>
        /\ IsPrimer(messages_to_send[1])
        /\ Len(SelectSeq(messages_to_send, IsPrimer)) = 1

\* C5: when the stored history holds a pinned memory entry, the list passed
\* to the remote call holds it, and holds two system turns: the primer and
\* the pinned entry.
C5_PinnedTransmitted ==
    (pc = "Sending" /\ Pinned(conversation_history) # <<>>) =>
        /\ Pinned(messages_to_send) # <<>>
        /\ Len(Systems(messages_to_send)) = 2

\* C6: the stored history never holds more than one pinned memory entry.
C6_AtMostOnePinned == Len(Pinned(conversation_history)) <= 1

\* C7: an inject_memories_to_context that follows another one, the first
\* having pinned an entry, leaves one pinned entry, whose text is the fold
\* of a selection of the memory bank.
C7_ReplaceNotAccumulate ==
    [][(/\ lastOp = "inject" /\ lastOp' = "inject" /\ pc' = "Idle"
        /\ Pinned(conversation_history) # <<>>)
       => /\ Len(Pinned(conversation_history')) = 1
          /\ \E phases \in PhaseLists :
                /\ MemoriesToInject(memory_bank, phases) # <<>>
                /\ Pinned(conversation_history')[1].content =
                      MemoryContent(MemoriesToInject(memory_bank, phases))]_vars

\* C8: a get_response calls the remote at most twice; it calls it a second
\* time exactly when the first call raised a context-length error; the
\* payload of the second call is the primer and the user turn this
\* get_response appended.
C8_RetryProtocol ==
    /\ calls <= 2
    /\ calls = 2 <=> (raised # <<>> /\ raised[1].ctx)
    /\ pc = "Retrying" =>
          /\ Len(messages_to_send) = 2
          /\ IsPrimer(messages_to_send[1])
          /\ messages_to_send[2].role = "user"
          /\ messages_to_send[2].src = Len(conversation_history)
          /\ messages_to_send[2].content = Last(conversation_history).content

\* C9: when the first call raises an error that is not a context-length
\* error, get_response makes no other call, stores no assistant turn (the
\* user turn it appended stays last) and returns the error message.
C9_NoRetryOnOtherError ==
    (raised # <<>> /\ ~raised[1].ctx) =>
        /\ pc = "Failed"
        /\ calls = 1
        /\ Len(raised) = 1
        /\ Last(conversation_history).role = "user"
        /\ ret = [form |-> "str",
                  content |-> Text("error", ErrPrefixLen + raised[1].len, FALSE)]

\* C9 witness: a get_response that ended on such an error.
C9_Witness == pc = "Failed" /\ raised # <<>> /\ ~raised[1].ctx

\* C10: what a failed get_response returns is not of the form of a reply
\* (a reply is returned as a str).
C10_ExplicitErrorResult == pc = "Failed" => ret.form # "str"

\* C11: an agent whose primer alone costs more than the budget of
\* get_response never passes a list to the remote call: building the list
\* fails instead.
C11_ConfigurationError == Tokens(system_prompt) > SendBudget => ~InFlight

\* C12: when a get_response has returned a reply, from the first call or
\* from the retry, the last stored turn is the assistant turn holding it.
C12_ReplyStored ==
    (pc = "Idle" /\ lastOp \in {"send", "summarize"} /\ ret.form = "str") =>
        /\ conversation_history # <<>>
        /\ Last(conversation_history) = Msg("assistant", ret.content)

\* C13: in a session that recovered from an overflow (every state of
\* SpecRecovered), a get_response enforces a capacity below SendBudget: from
\* a history that ends with a reply and costs SendBudget or more it evicts a
\* turn, so that with the new user turn no more non-system turns are stored
\* than before.
C13_ReducedCapacity ==
    [][(/\ CanCall /\ pc' = "Sending" /\ mode'.kind = "send"
        /\ conversation_history # <<>>
        /\ Last(conversation_history).role = "assistant"
        /\ SumTokens(conversation_history) >= SendBudget)
       => Len(NonSystem(conversation_history'))
             <= Len(NonSystem(conversation_history))]_vars

TurnsOf(history) == {history[i] : i \in 1..Len(history)}

\* C14: a stored turn is never changed in place: every turn stored after a
\* step was stored before it or holds a text as it was given, not a cut one.
C14_TurnImmutability ==
    [][\A m \in TurnsOf(conversation_history') \ TurnsOf(conversation_history) :
          ~m.content.cut]_vars

\* C15: every stored non-system turn is in the list passed to the remote
\* call by the first attempt: what the budget leaves out of the list is
\* removed from the history as well.
C15_EvictionDestructive ==
    pc = "Sending" =>
        \A i \in 1..Len(conversation_history) :
            conversation_history[i].role # "system" =>
                \E j \in 1..Len(messages_to_send) : messages_to_send[j].src = i

\* C16: the memory bank only grows at its end: the step on which a
\* summarize_phase returns appends one entry, of the phase given and with
\* the returned text as content, whatever the bank holds; every other step
\* leaves the bank as it is.
C16_AppendOnly ==
    [][IF mode.kind = "summarize" /\ InFlight /\ pc' \in {"Idle", "Failed"}
       THEN memory_bank' = Append(memory_bank, [phase |-> mode.phase,
                                                content |-> ret'.content])
       ELSE memory_bank' = memory_bank]_vars

\* C16 witness: a summarize_phase has returned for a phase that had an entry.
C16_Witness ==
    /\ lastOp = "summarize"
    /\ Len(memory_bank) >= 2
    /\ memory_bank[Len(memory_bank)].phase = memory_bank[Len(memory_bank) - 1].phase

\* The entries of the phases named, each once, in the order of the bank.
ExpectedSelection(bank, phases) ==
    IF phases = <<>> THEN bank
    ELSE SelectSeq(bank, LAMBDA m : \E i \in 1..Len(phases) : phases[i] = m.phase)

\* C17: for every phase list, the memories selected for injection are the
\* entries of the bank whose phase is named, each once, in the order of the
\* bank; all of them for an empty list.
C17_SelectionOrder ==
    \A phases \in PhaseLists :
        MemoriesToInject(memory_bank, phases) = ExpectedSelection(memory_bank, phases)

Folded(memories) == Fold(memories, Len(memories), 0, <<>>)
MemoryTokens(memory) == MemoryTextLen(memory) \div CharsPerToken
FitsAlone(memory) == MemoryTokens(memory) <= MaxMemoryTokens

\* C18 as stated: for every phase list, the entries folded are the newest of
\* the selection, without a gap: a suffix of the selection.
C18_FoldContiguous ==
    \A phases \in PhaseLists :
        LET sel == MemoriesToInject(memory_bank, phases)
            folded == Folded(sel)
        IN  folded = SubSeq(sel, Len(sel) - Len(folded) + 1, Len(sel))

\* The tokens of the entries of sel at the positions of keep above k
RECURSIVE TokensAbove(_, _, _)
TokensAbove(sel, keep, k) ==
    IF k >= Len(sel) THEN 0
    ELSE (IF k + 1 \in keep THEN MemoryTokens(sel[k + 1]) ELSE 0)
         + TokensAbove(sel, keep, k + 1)

\* The entries of sel at the positions of keep, in the order of sel
RECURSIVE Restrict(_, _, _)
Restrict(sel, keep, k) ==
    IF k > Len(sel) THEN <<>>
    ELSE (IF k \in keep THEN <<sel[k]>> ELSE <<>>) \o Restrict(sel, keep, k + 1)

\* C18 amended: the fold walks the selection from the newest entry to the
\* oldest and skips, without stopping, each entry that does not fit on top
\* of the newer entries folded: an entry is folded exactly when it fits on
\* top of those, the entries folded keep the order of the selection, and
\* together they cost no more than the ceiling.
C18_FoldSkipping ==
    \A phases \in PhaseLists :
        LET sel == MemoriesToInject(memory_bank, phases)
            folded == Folded(sel)
        IN  \E keep \in SUBSET (1..Len(sel)) :
               /\ folded = Restrict(sel, keep, 1)
               /\ \A k \in 1..Len(sel) :
                      k \in keep <=>
                         MemoryTokens(sel[k]) + TokensAbove(sel, keep, k)
                            <= MaxMemoryTokens
               /\ TokensAbove(sel, keep, 0) <= MaxMemoryTokens

\* C18 witness: an inject_memories_to_context has folded the older of two
\* entries, the newer one being over the ceiling.
C18_Witness ==
    /\ lastOp = "inject"
    /\ Len(memory_bank) = 2
    /\ ~FitsAlone(memory_bank[2])
    /\ \E i \in 1..Len(conversation_history) :
           /\ IsPinned(conversation_history[i])
           /\ conversation_history[i].content.parts = <<memory_bank[1]>>

\* C19: when the entries of the phases named are two, A older than B, each
\* under the ceiling alone and over it together, the fold is B alone, in
\* whatever order the phases are named.
C19_RecencyFirst ==
    \A phases \in PhaseLists :
        LET want == ExpectedSelection(memory_bank, phases)
        IN  (/\ Len(want) = 2
             /\ FitsAlone(want[1]) /\ FitsAlone(want[2])
             /\ MemoryTokens(want[1]) + MemoryTokens(want[2]) > MaxMemoryTokens)
            => Folded(MemoriesToInject(memory_bank, phases)) = <<want[2]>>

\* What an injected text holds besides the header and the folded entries.
PlaceholderLen(c) == c.len - MemHeaderLen - SumMemoryLen(c.parts)

\* C20: the text injected for a non-empty selection is never empty; it holds
\* the placeholder when no selected entry is under the ceiling and nothing
\* was folded, and holds no placeholder when an entry was folded.  The
\* pinned entries stored are of these two kinds.
C20_Placeholder ==
    /\ \A phases \in PhaseLists :
           LET sel == MemoriesToInject(memory_bank, phases)
               c == MemoryContent(sel)
               none == \A k \in 1..Len(sel) : ~FitsAlone(sel[k])
           IN  sel # <<>> =>
                  /\ c.len > 0
                  /\ none <=> c.parts = <<>>
                  /\ none <=> PlaceholderLen(c) = MemPlaceholderLen
                  /\ ~none <=> PlaceholderLen(c) = 0
    /\ \A i \in 1..Len(conversation_history) :
           IsPinned(conversation_history[i]) =>
              LET c == conversation_history[i].content
              IN  /\ c.len > 0
                  /\ c.parts = <<>> <=> PlaceholderLen(c) = MemPlaceholderLen
                  /\ c.parts # <<>> <=> PlaceholderLen(c) = 0

\* C20 witness: an inject_memories_to_context has stored the placeholder,
\* the one summary of the bank being over the ceiling.
C20_Witness ==
    /\ lastOp = "inject"
    /\ memory_bank # <<>>
    /\ \E i \in 1..Len(conversation_history) :
           /\ IsPinned(conversation_history[i])
           /\ conversation_history[i].content.parts = <<>>

\* C21: every pinned memory entry stored costs, header and placeholder
\* counted, no more than the ceiling of the fold (10000 tokens), by the
\* estimate manage_history_length applies to it.
C21_PinnedUnderCeiling ==
    \A i \in 1..Len(conversation_history) :
        IsPinned(conversation_history[i]) =>
            Tokens(conversation_history[i].content) <= MaxMemoryTokens

\* A step of inject_memories_to_context that injects an entry: the selection
\* of some phase list is not empty and the history stored is its result.
InjectStep ==
    /\ CanCall /\ pc' = "Idle" /\ lastOp' = "inject"
    /\ \E phases \in PhaseLists :
           LET sel == MemoriesToInject(memory_bank, phases)
           IN  /\ sel # <<>>
               /\ conversation_history' = InjectInto(conversation_history, sel)

\* C22: when inject_memories_to_context returns after injecting an entry and
\* the system turns stored fit the capacity (40000 tokens) alone, the whole
\* history stored costs no more than the capacity.
C22_InjectReappliesCapacity ==
    [][InjectStep =>
          (SumTokens(Systems(conversation_history')) <= DefaultBudget
              => SumTokens(conversation_history') <= DefaultBudget)]_vars

C22_Witness ==
    /\ pc = "Idle" /\ lastOp = "inject"
    /\ SumTokens(Systems(conversation_history)) <= DefaultBudget
    /\ \E i \in 1..Len(conversation_history) :
           /\ IsPinned(conversation_history[i])
           /\ Tokens(conversation_history[i].content) > MaxMemoryTokens

\* C28: add_message_to_history adds exactly the turn given at the end of the
\* history stored and leaves every turn stored before in place and
\* unchanged, whatever the role; two user turns appended one after the
\* other are adjacent.
C28_AppendFrame ==
    [][(CanCall /\ pc' = "Idle" /\ lastOp' = "append") =>
          /\ Len(conversation_history') = Len(conversation_history) + 1
          /\ SubSeq(conversation_history', 1, Len(conversation_history))
                = conversation_history]_vars

\* The history inject_memories_to_context(phases) leaves.
InjectResult(history, bank, phases) ==
    LET sel == MemoriesToInject(bank, phases)
    IN  IF sel = <<>> THEN history ELSE InjectInto(history, sel)

\* C29: a second inject_memories_to_context with the same phases, made right
\* after the first, leaves the history stored by the first as it is, turns
\* and order.
C29_InjectIdempotent ==
    [][(CanCall /\ pc' = "Idle" /\ lastOp' = "inject") =>
          \A phases \in PhaseLists :
              conversation_history'
                  = InjectResult(conversation_history, memory_bank, phases)
              => InjectResult(conversation_history', memory_bank, phases)
                    = conversation_history']_vars

\* C27: clear_history(True) leaves the history stored equal to [primer] and
\* clear_history(False) leaves it empty; every other turn stored, an
\* injected memory entry included, is gone and memory_bank is unchanged.
C27_ClearFrame ==
    [][(CanCall /\ pc' = "Idle" /\ lastOp' \in {ClearOp(TRUE), ClearOp(FALSE)}) =>
          /\ memory_bank' = memory_bank
          /\ lastOp' = ClearOp(TRUE) =>
                 conversation_history' = <<Msg("system", system_prompt)>>
          /\ lastOp' = ClearOp(FALSE) => conversation_history' = <<>>]_vars

C27_Witness ==
    /\ pc = "Idle" /\ lastOp = ClearOp(TRUE)
    /\ conversation_history = <<Msg("system", system_prompt)>>
    /\ memory_bank # <<>>

StoresPrimer(history) ==
    \E i \in 1..Len(history) :
        history[i].role = "system" /\ history[i].content.tag = "primer"

ManageStep(b) ==
    /\ CanCall /\ pc' = "Idle" /\ lastOp' = "manage"
    /\ conversation_history' = ManageHistoryLength(conversation_history, b)

\* The turns are whole pairs: user, assistant, user, assistant, ...
WholePairs(turns) ==
    /\ Len(turns) % 2 = 0
    /\ \A i \in 1..Len(turns) :
           turns[i].role = (IF i % 2 = 1 THEN "user" ELSE "assistant")

\* The primer of 10 tokens followed by k pairs of 4 tokens, 2 a turn
ScenarioHistory(history, k) ==
    /\ Len(history) = 1 + 2 * k
    /\ history[1].role = "system" /\ Tokens(history[1].content) = 10
    /\ WholePairs(SubSeq(history, 2, Len(history)))
    /\ \A i \in 2..Len(history) : Tokens(history[i].content) = 2

PcSteps ==
    {<<"Idle", "Sending">>, <<"Failed", "Sending">>,
     <<"Sending", "Idle">>, <<"Sending", "Failed">>, <<"Sending", "Retrying">>,
     <<"Retrying", "Idle">>, <<"Retrying", "Failed">>,
     <<"Idle", "Idle">>, <<"Failed", "Idle">>}

PcStep == <<pc, pc'>> \in PcSteps

Returned == pc \in {"Idle", "Failed"} /\ ret.form = "str"

C25_BankOwnership ==
    \A x \in coord.access :
        /\ x.kind = "write" => x.by = "summarize_phase"
        /\ x.kind = "read" => x.by = "inject_memories_to_context"

\* The order of the phases the workflow is to follow
FixedOrder ==
    <<"initialization", "research_execution", "paper_writing",
      "paper_optimization", "paper_finalization">>

PhaseChange ==
    coord'.current_phase # coord.current_phase =>
        /\ \E i \in 1..(Len(FixedOrder) - 1) :
               /\ coord.current_phase = FixedOrder[i]
               /\ coord'.current_phase = FixedOrder[i + 1]
        /\ coord.running = {}
        /\ coord.step = Len(PhaseScript(coord.current_phase))

\* C26: the coordinator runs the five phases in the fixed order, each phase
\* after all the calls of the one before have returned, and at every moment
\* at most one operation of an agent is in progress.
C26_SequentialPipeline ==
    /\ [](Cardinality(coord.running) <= 1)
    /\ [](coord.phase_no >= 1 => coord.current_phase = FixedOrder[coord.phase_no])
    /\ [][PhaseChange]_coord

C26_Witness ==
    /\ coord.phase_no = 5
    /\ coord.current_phase = "paper_finalization"
    /\ Finished(coord)
    /\ coord.running = {}

\* A payload entry without the index of the dict it aliases
Plain(messages) ==
    [i \in 1..Len(messages) |->
        [role |-> messages[i].role, content |-> messages[i].content]]

\* A step that starts get_response(message) for a caller other than
\* summarize_phase
SendStep ==
    CanCall /\ pc' = "Sending" /\ mode'.kind = "send"

\* C31: when the history stored costs no more than the budget of
\* get_response (35000 tokens), the eviction changes nothing: every turn
\* stored stays in its place, and the list transmitted is the primer
\* followed by all the non-system turns stored, in their order.
C31_NoEvictionWithinBudget ==
    [][(SendStep /\ SumTokens(conversation_history) <= SendBudget) =>
          /\ SubSeq(conversation_history', 1, Len(conversation_history))
                = conversation_history
          /\ Plain(messages_to_send')
                = <<Msg("system", system_prompt)>> \o NonSystem(conversation_history')]_vars

\* The turns a get_response step stores on top of `base`
StoredOnTop(base, turns) == conversation_history' = base \o turns

NewUserTurn == Last(conversation_history')

\* C32: get_response called while the last turn stored is a user turn
\* stores a filler assistant turn and then the new user turn; called while
\* the last turn stored is not a user turn it stores the new user turn only.
C32_ProactiveFiller ==
    [][SendStep =>
          LET h == conversation_history
              kept == ManageHistoryLength(h, SendBudget)
          IN  /\ NewUserTurn.role = "user"
              /\ IF h # <<>> /\ Last(h).role = "user"
                 THEN StoredOnTop(kept, <<FillerAssistant, NewUserTurn>>)
                 ELSE StoredOnTop(kept, <<NewUserTurn>>)]_vars

\* C32 as the code has it: the test is made after the eviction of line 135,
\* on the last turn the eviction left.  A last user turn that the eviction
\* removed gets no filler.
C32_FillerAfterEviction ==
    [][SendStep =>
          LET kept == ManageHistoryLength(conversation_history, SendBudget)
          IN  /\ NewUserTurn.role = "user"
              /\ IF kept # <<>> /\ Last(kept).role = "user"
                 THEN StoredOnTop(kept, <<FillerAssistant, NewUserTurn>>)
                 ELSE StoredOnTop(kept, <<NewUserTurn>>)]_vars

C32_Witness ==
    /\ pc = "Sending" /\ mode.kind = "send"
    /\ Len(conversation_history) >= 3
    /\ conversation_history[Len(conversation_history) - 2].role = "user"
    /\ conversation_history[Len(conversation_history) - 1] = FillerAssistant
    /\ Last(conversation_history).role = "user"

\* C33: in the payload of the retry the last user turn of the first payload
\* is sent as its first 4000 characters and the truncation marker when its
\* text is longer than 4000 characters and as it is otherwise; the payload
\* holds the system turns of the first payload and that one turn, whether
\* or not the text is cut.
C33_RetryTruncation ==
    [][(pc = "Sending" /\ pc' = "Retrying") =>
          LET orig == LastUserMsg(messages_to_send)
              sent == Last(messages_to_send')
          IN  /\ sent.role = "user"
              /\ orig.content.len > TruncateAt =>
                    /\ sent.content.cut
                    /\ sent.content.len = TruncateAt + TruncMarkerLen
                    /\ sent.content.tag = orig.content.tag
              /\ orig.content.len <= TruncateAt => sent.content = orig.content
              /\ Len(messages_to_send') = Len(Systems(messages_to_send)) + 1]_vars

C33_Witness ==
    /\ pc = "Retrying"
    /\ Last(messages_to_send).role = "user"
    /\ Last(messages_to_send).content.cut
    /\ Last(messages_to_send).content.len = TruncateAt + TruncMarkerLen
    /\ Len(messages_to_send) = 2

\* C34: every entry of memory_bank holds a text that a remote call returned:
\* a summarize_phase whose get_response failed appends no entry.
C34_NoMemoryOfFailure ==
    \A i \in 1..Len(memory_bank) : memory_bank[i].content.tag = "reply"

\* C35: in every list passed to the remote call the first turn that is not
\* a system turn is a user turn.
C35_FirstTurnIsUser ==
    InFlight =>
        LET non == NonSystem(messages_to_send)
        IN  non # <<>> => non[1].role = "user"

\* C36: the list passed to the remote call by the first attempt of
\* get_response(message) ends with the user turn that carries message, the
\* one just stored: the eviction, the repair of the alternation and the
\* aggressive trim leave it last.
C36_NewTurnLast ==
    [][SendStep =>
          \E message \in UserTexts :
              /\ Last(conversation_history') = Msg("user", message)
              /\ Last(messages_to_send')
                    = Entry(Msg("user", message), Len(conversation_history'))]_vars

C36_Witness ==
    /\ pc = "Sending" /\ mode.kind = "send" /\ calls = 1
    /\ Len(NonSystem(conversation_history)) > KeepLast
    /\ Len(NonSystem(messages_to_send)) = KeepLast
    /\ Last(messages_to_send).role = "user"
    /\ Last(messages_to_send).src = Len(conversation_history)

\* A get_response made right after a get_response that failed
SendAfterFailure == pc = "Failed" /\ SendStep

UserTurnLast ==
    pc = "Failed" =>
        /\ conversation_history # <<>>
        /\ Last(conversation_history).role = "user"

\* C37: a get_response that fails is not rolled back: the user turn it
\* stored is still the last turn stored and no assistant turn follows it,
\* so the next get_response stores a filler assistant turn after it.
C37_FailureNotRolledBack ==
    /\ []UserTurnLast
    /\ [][SendAfterFailure =>
             StoredOnTop(conversation_history, <<FillerAssistant, NewUserTurn>>)]_vars

\* C37 as the code has it: the user turn stays last after the failure; the
\* next get_response stores the filler after it when its eviction (line
\* 135) leaves that turn in the history, and stores only the new user turn
\* when the eviction removes it.
C37_FillerUnlessEvicted ==
    /\ []UserTurnLast
    /\ [][SendAfterFailure =>
             LET kept == ManageHistoryLength(conversation_history, SendBudget)
             IN  IF NonSystem(kept) # <<>>
                 THEN /\ Last(kept) = Last(conversation_history)
                      /\ StoredOnTop(kept, <<FillerAssistant, NewUserTurn>>)
                 ELSE StoredOnTop(kept, <<NewUserTurn>>)]_vars

C37_Witness ==
    /\ pc = "Sending" /\ mode.kind = "send" /\ calls = 1
    /\ Len(conversation_history) >= 3
    /\ conversation_history[Len(conversation_history) - 2].role = "user"
    /\ conversation_history[Len(conversation_history) - 2].content.cut
    /\ conversation_history[Len(conversation_history) - 1] = FillerAssistant
    /\ Last(conversation_history).role = "user"

\* The phases of the entries an agent's memory_bank holds
BankPhases(agent) ==
    {coord.banks[agent][i] : i \in 1..Len(coord.banks[agent])}

\* The call in progress
RunningCall == CurrentScript[coord.step + 1]

\* C38: when the coordinator calls inject_memories_to_context(phases) on an
\* agent, the agent's memory_bank holds an entry of every phase named, and
\* none of the current phase; when it calls summarize_phase on an agent in
\* a phase after the first, the inject_memories_to_context of that phase on
\* that agent has returned.
C38_InjectAfterSummaries ==
    coord.running # {} =>
        /\ RunningCall.op = "inject_memories_to_context" =>
               /\ RunningCall.arg # <<>>
               /\ \A i \in 1..Len(RunningCall.arg) :
                      RunningCall.arg[i] \in BankPhases(RunningCall.agent)
               /\ coord.current_phase \notin BankPhases(RunningCall.agent)
        /\ (RunningCall.op = "summarize_phase" /\ coord.phase_no > 1) =>
               \E j \in 1..coord.step :
                   /\ CurrentScript[j].agent = RunningCall.agent
                   /\ CurrentScript[j].op = "inject_memories_to_context"

C38_Witness ==
    /\ coord.running = {"industry_advisor"}
    /\ coord.current_phase = "paper_finalization"
    /\ RunningCall.op = "inject_memories_to_context"
    /\ Len(RunningCall.arg) = 4

====
